---- MODULE Spec2Model ----
(***************************************************************************)
(* Model of the bulk batch-execution engine of clickup-mcp:                *)
(*   services/clickup/concurrency_utils.py  (_chunked, _run_single,        *)
(*   process_batch).                                                       *)
(*                                                                         *)
(* One run of process_batch is modelled.  Positions in the input are the   *)
(* 0-based indexes the source uses (enumerate(..., start=...)); the item   *)
(* at index i is items[i + 1].  The processor is an external input: each   *)
(* of its invocations either returns or raises; the processors of          *)
(* BulkService (bulk_service.py) raise INVALID_PARAMETER on every call for *)
(* an entry that lacks a required field.  The progress callback is         *)
(* an external input too: when one is installed, each of its invocations   *)
(* either returns or raises.                                               *)
(* Each coroutine advances from one suspension point to the next in one    *)
(* step (cooperative scheduling on a single event loop).                   *)
(***************************************************************************)
EXTENDS Integers, Sequences, FiniteSets, TLC

\* ---------------------------------------------------------------- bounds
MaxItems == 3
MaxBatchSize == 3
MaxConcurrency == 2
MaxRetryCount == 1
MaxInvalid == 1
MaxOverride == 11
MaxCalls == 2
MaxBackoffRetries == 3
MaxRetryDelay == 4
MaxEntries == 2

\* ------------------------------------------------------ program constants
DEFAULT_BATCH_SIZE == 10
DEFAULT_CONCURRENCY == 3
DEFAULT_RETRY_COUNT == 3
DEFAULT_RETRY_DELAY == 1
MAX_CONCURRENCY == 10

\* ------------------------------------------------------------- variables
VARIABLES
    items,              \* materialised: the input sequence
    invalid,            \* indexes of the entries that lack a required field or identifier
    opts,               \* effective BatchOptions of the run
    progress_callback,  \* TRUE iff opts.progress_callback is set
    pc,                 \* position of the process_batch coroutine
    batch_index,        \* enumerate(_chunked(...), start=1)
    status,             \* index -> position of that item's _run_single task
    attempt,            \* index -> _run_single's local attempt counter
    invocations,        \* index -> number of processor(item) calls made so far
    semaphore,          \* asyncio.Semaphore: the number of free permits
    outcome,            \* index -> <<>> while the task runs, <<success, payload>> once it returned
    next_outcome,       \* index of the next outcome the fold loop will take
    completed,          \* process_batch's local counter
    halt,               \* process_batch's local flag
    result,             \* the BatchResult being built
    task_index,         \* index -> the index argument its _run_single task was created with
    snapshots,          \* payloads the progress callback was invoked with, in order
    finished,           \* indexes of the current chunk's tasks, in the order they returned
    error,              \* what the run raised to its caller
    batch_defaults,     \* BulkService._batch_defaults
    options,            \* the options mapping the caller passed to the bulk call
    prepared_options,   \* what _prepare_options returned and process_batch received
    call_pc,            \* position of the current _run_sync call
    loop_running,       \* whether an event loop runs on the thread that called _run_sync
    coro,               \* what the coroutine handed to _run_sync does
    loops,              \* per thread, the number of event loops running on it
    coro_thread,        \* the thread the coroutine was run on
    slot,               \* the `result` dict and the `error` list of _run_sync
    delivered,          \* what _run_sync returned or raised to its caller
    calls,              \* _run_sync calls made so far
    nested_calls,       \* of these, the calls made while a loop was running
    threads_started,    \* worker threads started so far
    worker,             \* position of the worker thread of the current call
    chunks,             \* the chunks a _chunked generator has yielded so far
    chunk_start,        \* the loop variable `start` of that generator
    waits,              \* the backoff sleeps of _run_single so far, in order
    call,               \* the arguments of the bulk call: operation, team_id, list id and name
    client,             \* what the external client knows: default team, list names, OAuth
    resolved_team,      \* resolved_team of the bulk call
    resolved_list,      \* resolved_default_list_id / resolved_target_list of the bulk call
    list_resolutions,   \* client.resolve_list_id calls made by _resolve_default_list
    requests,           \* the client.request_checked calls of the processors, in order
    tasks               \* the task entries the caller passed to the bulk call

vars == <<items, invalid, opts, progress_callback, pc, batch_index, status, attempt,
          invocations, semaphore, outcome, next_outcome, completed, halt, result,
          task_index, snapshots, finished, error,
          batch_defaults, options, prepared_options,
          call_pc, loop_running, coro, loops, coro_thread, slot, delivered, calls,
          nested_calls, threads_started, worker, chunks, chunk_start, waits,
          call, client, resolved_team, resolved_list, list_resolutions, requests,
          tasks>>

\* the state of one process_batch run
run_vars == <<items, invalid, opts, progress_callback, pc, batch_index, status, attempt,
              invocations, semaphore, outcome, next_outcome, completed, halt, result,
              task_index, snapshots, finished, error>>

\* the option mappings of the service layer
service_vars == <<batch_defaults, options, prepared_options>>

\* the state of _run_sync
bridge_vars == <<call_pc, loop_running, coro, loops, coro_thread, slot, delivered, calls,
                 nested_calls, threads_started, worker>>

\* the state of a _chunked generator
chunk_vars == <<chunks, chunk_start>>

\* the record of the backoff sleeps
backoff_vars == <<waits>>

\* the state of a bulk call of the service
call_vars == <<call, client, resolved_team, resolved_list, list_resolutions, requests>>

\* the objects of the caller that a bulk call is handed
frame_vars == <<tasks>>

\* what process_batch and its tasks change, apart from pc and error
coordinator_vars == <<batch_index, status, attempt, invocations, semaphore, outcome,
                      next_outcome, completed, halt, result, task_index, snapshots,
                      finished>>

\* ------------------------------------------------------------ the inputs
ItemAt(i) == <<"item", i>>

InputOf(n) == [k \in 1..n |-> ItemAt(k - 1)]

Indexes == 0..(Len(items) - 1)

\* what processor(item) returns
ProcessorOutput(item) == <<"output", item>>

\* str(exc) of the exception the processor raises on its a-th invocation for the item
ProcessorError(item, a) == <<"boom", item, a>>

\* BulkService._build_create_payload, _resolve_list_for_entry and
\* _resolve_task_identifier raise ClickUpServiceError(code="INVALID_PARAMETER")
\* for an entry without the required name or identifier, on every call
InvalidParameterError(item) == <<"INVALID_PARAMETER", item>>

\* str(exc) of the exception raised by the a-th invocation for the item at index i
ExceptionMessage(i, a) ==
    IF i \in invalid THEN InvalidParameterError(ItemAt(i)) ELSE ProcessorError(ItemAt(i), a)

CallbackError == "callback raised"

NoError == [code |-> "NONE", message |-> "", context |-> [failed |-> <<>>, successful |-> <<>>]]

\* ------------------------------------------------------- BatchResult
EmptyBatchResult ==
    [successful |-> <<>>, failed |-> <<>>,
     totals |-> [success |-> 0, failure |-> 0, total |-> 0]]

\* ------------------------------------------------------------ _chunked
\* range(0, len(items), size)
ChunkStarts(n, size) == {s \in 0..(n - 1) : s % size = 0}

NumChunks(n, size) == Cardinality(ChunkStarts(n, size))

\* variant: a chunk takes the first item of the next chunk with it
ChunkIndexesOverlapping(n, size, b) ==
    {i \in 0..(n - 1) : (b - 1) * size <= i /\ i <= b * size}

\* variant: the chunks are enumerated from the last to the first
ChunkIndexesReversed(n, size, b) ==
    {i \in 0..(n - 1) : (NumChunks(n, size) - b) * size <= i
                          /\ i < (NumChunks(n, size) - b) * size + size}

\* indexes of the items of the chunk enumerated as batch_index b (1-based):
\* items[start : start + size] with start = (b - 1) * size
ChunkIndexes(n, size, b) ==
    {i \in 0..(n - 1) : (b - 1) * size <= i /\ i < (b - 1) * size + size}

\* the chunk an index belongs to
ChunkOf(i, size) == (i \div size) + 1

\* ------------------------------------------------------------------ Init
\* the state in which process_batch is entered, for any input and options
\* nothing of a run has happened yet
TasksIdle ==
    /\ batch_index = 0
    /\ status = [i \in Indexes |-> "idle"]
    /\ attempt = [i \in Indexes |-> 0]
    /\ invocations = [i \in Indexes |-> 0]
    /\ semaphore = 0
    /\ outcome = [i \in Indexes |-> <<>>]
    /\ next_outcome = 0
    /\ completed = 0
    /\ halt = FALSE
    /\ result = EmptyBatchResult
    /\ task_index = [i \in Indexes |-> -1]
    /\ snapshots = <<>>
    /\ finished = <<>>
    /\ error = NoError

\* the inputs of one process_batch call
RunInit ==
    /\ \E n \in 0..MaxItems : items = InputOf(n)
    /\ opts \in [batch_size : 1..MaxBatchSize,
                 concurrency : 1..MaxConcurrency,
                 retry_count : 0..MaxRetryCount,
                 continue_on_error : BOOLEAN]
    /\ pc = "start"
    /\ TasksIdle

\* a mapping without keys
EmptyMapping == <<>>

\* the options have been merged already: the option mappings play no part in a run
ServiceIdle ==
    /\ batch_defaults = EmptyMapping
    /\ options = EmptyMapping
    /\ prepared_options = EmptyMapping

\* the value of a coroutine that returns nothing
NoneValue == [type |-> "NoneType"]

NotDelivered == [kind |-> "pending", value |-> NoneValue]
EmptySlot == [result |-> EmptyMapping, error |-> <<>>]
Threads == {"caller", "worker"}

\* no _run_sync call is in progress
BridgeIdle ==
    /\ call_pc = "idle"
    /\ loop_running = FALSE
    /\ coro = NotDelivered
    /\ loops = [t \in Threads |-> 0]
    /\ coro_thread = "none"
    /\ slot = EmptySlot
    /\ delivered = NotDelivered
    /\ calls = 0
    /\ nested_calls = 0
    /\ threads_started = 0
    /\ worker = "none"

\* no _chunked generator is being observed
ChunkIdle ==
    /\ chunks = <<>>
    /\ chunk_start = 0

\* no backoff sleep is being recorded
BackoffIdle == waits = <<>>

\* an absent team id, and an absent task id
NoTeam == <<>>
NoTaskId == <<>>

\* no bulk call of the service is being observed
CallIdle ==
    /\ call = [operation |-> "none", team_id |-> NoTeam, list_id |-> "", list_name |-> ""]
    /\ client = [default_team_id |-> NoTeam, known_list |-> FALSE, oauth |-> FALSE]
    /\ resolved_team = NoTeam
    /\ resolved_list = ""
    /\ list_resolutions = 0
    /\ requests = <<>>

\* no caller's task list is being observed
FrameIdle == tasks = <<>>

\* a run with any processor, with or without a progress callback
Init ==
    /\ RunInit
    /\ ServiceIdle
    /\ BridgeIdle
    /\ ChunkIdle
    /\ BackoffIdle
    /\ CallIdle
    /\ FrameIdle
    /\ progress_callback \in BOOLEAN
    /\ invalid = {}

\* a run started by BulkService: _prepare_options always installs its own
\* progress callback, and the entries may lack required fields
ServiceInit ==
    /\ RunInit
    /\ ServiceIdle
    /\ BridgeIdle
    /\ ChunkIdle
    /\ BackoffIdle
    /\ CallIdle
    /\ FrameIdle
    /\ progress_callback = TRUE
    /\ invalid \in {S \in SUBSET Indexes : Cardinality(S) <= MaxInvalid}

\* variant: the initial state is reported to the progress callback before the
\* empty-input check
ProcessBatchStartEmits ==
    /\ pc = "start"
    /\ result' = [EmptyBatchResult EXCEPT !.totals.total = Len(items)]
    /\ snapshots' = IF progress_callback
                       THEN Append(snapshots, [completed |-> 0, success |-> 0,
                                               failure |-> 0, total |-> Len(items)])
                       ELSE snapshots
    /\ IF Len(items) = 0
          THEN /\ pc' = "returned"
               /\ UNCHANGED <<semaphore, completed, halt>>
          ELSE /\ pc' = "loop"
               /\ semaphore' = opts.concurrency
               /\ completed' = 0
               /\ halt' = FALSE
    /\ UNCHANGED <<items, invalid, opts, progress_callback, batch_index, status, attempt,
                   invocations, outcome, next_outcome, task_index, error>>
    /\ UNCHANGED finished

\* ------------------------------------------------- process_batch: set-up
\* lines 103-115 and 130: materialise, fix totals.total, return at once on an
\* empty input, otherwise size the semaphore and enter the chunk loop
ProcessBatchStart ==
    /\ pc = "start"
    /\ result' = [EmptyBatchResult EXCEPT !.totals.total = Len(items)]
    /\ IF Len(items) = 0
          THEN /\ pc' = "returned"
               /\ UNCHANGED <<semaphore, completed, halt>>
          ELSE /\ pc' = "loop"
               /\ semaphore' = opts.concurrency
               /\ completed' = 0
               /\ halt' = FALSE
    /\ UNCHANGED <<items, invalid, opts, progress_callback, batch_index, status, attempt,
                   invocations, outcome, next_outcome, task_index, snapshots, error>>
    /\ UNCHANGED finished

\* variant: the chunk loop ignores the halt flag
LoopNeverBreaks(h) == FALSE

\* `if halt: break` at the top of the chunk loop
LoopBreaks(h) == h

\* variant: enumerate(batch) without the start offset
EnumerateIndexFromZero(b, size, k) == k

\* enumerate(batch, start=(batch_index - 1) * batch_size): the index given to
\* the k-th item (k = 0, 1, ...) of the chunk
EnumerateIndex(b, size, k) == (b - 1) * size + k

\* lines 131-137: take the next chunk and create one _run_single task per item
DispatchChunk ==
    /\ pc = "loop"
    /\ batch_index < NumChunks(Len(items), opts.batch_size)
    /\ ~LoopBreaks(halt)
    /\ LET b == batch_index + 1
           chunk == ChunkIndexes(Len(items), opts.batch_size, b)
           start == (b - 1) * opts.batch_size
       IN  /\ batch_index' = b
           /\ status' = [i \in Indexes |-> IF i \in chunk THEN "waiting" ELSE status[i]]
           /\ task_index' = [i \in Indexes |->
                  IF i \in chunk THEN EnumerateIndex(b, opts.batch_size, i - start)
                                 ELSE task_index[i]]
           /\ next_outcome' = start
    /\ pc' = "gather"
    /\ UNCHANGED <<items, invalid, opts, progress_callback, attempt, invocations, semaphore,
                   outcome, completed, halt, result, snapshots, error>>
    /\ finished' = <<>>

\* ----------------------------------------------------------- _run_single
\* variant: a semaphore that still hands out a permit when none is free
LockedBelowZero(value) == value < 0

\* asyncio.Semaphore.locked(): no permit is free
Locked(value) == value = 0

\* `async with semaphore:` entered and processor(item) called (lines 82-83)
Acquire(i) ==
    /\ status[i] = "waiting"
    /\ ~Locked(semaphore)
    /\ semaphore' = semaphore - 1
    /\ status' = [status EXCEPT ![i] = "running"]
    /\ invocations' = [invocations EXCEPT ![i] = @ + 1]
    /\ UNCHANGED <<items, invalid, opts, progress_callback, pc, batch_index, attempt, outcome,
                   next_outcome, completed, halt, result, task_index, snapshots, error>>
    /\ UNCHANGED finished

\* variant: leaving the `async with` block gives no permit back
ReleaseNever(value) == value

\* asyncio.Semaphore.release() on leaving the `async with semaphore` block,
\* whether the processor returned or raised (lines 82-83)
Release(value) == value + 1

\* the processor returns: the permit is released, _run_single returns (True, result)
\* (lines 82-84)
ProcessorReturns(i) ==
    /\ status[i] = "running"
    /\ i \notin invalid
    /\ semaphore' = Release(semaphore)
    /\ outcome' = [outcome EXCEPT ![i] = <<TRUE, ProcessorOutput(items[i + 1])>>]
    /\ status' = [status EXCEPT ![i] = "done"]
    /\ UNCHANGED <<items, invalid, opts, progress_callback, pc, batch_index, attempt,
                   invocations, next_outcome, completed, halt, result, task_index,
                   snapshots, error>>
    /\ finished' = Append(finished, i)

\* variant: `attempt >= retry_count`, one attempt short
RetriesExhaustedEarly(att, retry_count) == att >= retry_count

\* `if attempt > options.retry_count` (line 87)
RetriesExhausted(att, retry_count) == att > retry_count

\* {"item": item, "error": str(exc), "index": index} (line 88)
FailureRecord(item, message, idx) == [item |-> item, error |-> message, index |-> idx]

\* the processor raises: the permit is released, attempt is incremented, and the
\* task either returns (False, record) or goes to sleep before retrying (lines 85-93)
ProcessorRaises(i) ==
    /\ status[i] = "running"
    /\ semaphore' = Release(semaphore)
    /\ attempt' = [attempt EXCEPT ![i] = @ + 1]
    /\ IF RetriesExhausted(attempt'[i], opts.retry_count)
          THEN /\ outcome' = [outcome EXCEPT ![i] =
                      <<FALSE, FailureRecord(items[i + 1],
                                             ExceptionMessage(i, invocations[i]),
                                             task_index[i])>>]
               /\ status' = [status EXCEPT ![i] = "done"]
          ELSE /\ status' = [status EXCEPT ![i] = "sleeping"]
               /\ UNCHANGED outcome
    /\ UNCHANGED <<items, invalid, opts, progress_callback, pc, batch_index, invocations,
                   next_outcome, completed, halt, result, task_index, snapshots, error>>
    /\ finished' = IF status'[i] = "done" THEN Append(finished, i) ELSE finished

\* asyncio.sleep(wait_delay + jitter) is over: back to the top of `while True`
BackoffElapsed(i) ==
    /\ status[i] = "sleeping"
    /\ status' = [status EXCEPT ![i] = "waiting"]
    /\ UNCHANGED <<items, invalid, opts, progress_callback, pc, batch_index, attempt,
                   invocations, semaphore, outcome, next_outcome, completed, halt, result,
                   task_index, snapshots, error>>
    /\ UNCHANGED finished

\* ------------------------------------------ process_batch: gather and fold
\* variant: a fail-fast gather that, when the run is to halt on error, returns as
\* soon as some task failed and every task before it has returned
GatherFailFast(chunk, st) ==
    \/ \A i \in chunk : st[i] = "done"
    \/ /\ ~opts.continue_on_error
       /\ \E j \in chunk :
             /\ st[j] = "done" /\ ~outcome[j][1]
             /\ \A k \in chunk : k < j => st[k] = "done"

\* `await asyncio.gather(*tasks)` returns once every task of the chunk returned
GatherComplete(chunk, st) == \A i \in chunk : st[i] = "done"

GatherReturns ==
    /\ pc = "gather"
    /\ GatherComplete(ChunkIndexes(Len(items), opts.batch_size, batch_index), status)
    /\ pc' = "fold"
    /\ UNCHANGED <<items, invalid, opts, progress_callback, batch_index, status, attempt,
                   invocations, semaphore, outcome, next_outcome, completed, halt, result,
                   task_index, snapshots, error>>
    /\ UNCHANGED finished

\* variant: the payload is put in front of the list
FoldResultPrepends(res, success, payload) ==
    IF success
       THEN [res EXCEPT !.successful = <<payload>> \o @, !.totals.success = @ + 1]
       ELSE [res EXCEPT !.failed = <<payload>> \o @, !.totals.failure = @ + 1]

\* variant: a failure is appended but not counted
FoldResultUncounted(res, success, payload) ==
    IF success
       THEN [res EXCEPT !.successful = Append(@, payload), !.totals.success = @ + 1]
       ELSE [res EXCEPT !.failed = Append(@, payload)]

\* lines 141-147: append the payload and count it
FoldResult(res, success, payload) ==
    IF success
       THEN [res EXCEPT !.successful = Append(@, payload), !.totals.success = @ + 1]
       ELSE [res EXCEPT !.failed = Append(@, payload), !.totals.failure = @ + 1]

\* variant: a failure never sets the halt flag
FoldHaltNever(h, success, continue_on_error) == h

\* lines 148-149: `if not opts.continue_on_error: halt = True` in the failure branch
FoldHalt(h, success, continue_on_error) ==
    IF ~success /\ ~continue_on_error THEN TRUE ELSE h

\* variant: completed is reported as it was before the item was counted
ProgressPayloadBeforeCount(done, res) ==
    [completed |-> done - 1, success |-> res.totals.success,
     failure |-> res.totals.failure, total |-> res.totals.total]

\* lines 120-125: the payload emit_progress builds
ProgressPayload(done, res) ==
    [completed |-> done, success |-> res.totals.success,
     failure |-> res.totals.failure, total |-> res.totals.total]

\* variant: the fold loop goes on after a halting failure
FoldNeverBreaks(h) == FALSE

\* `if halt: break` at the end of the fold loop (lines 151-152)
FoldBreaks(h) == h

\* one iteration of `for outcome in ...` (lines 138-152).  emit_progress calls the
\* callback, if any, and awaits it; an exception it raises is not caught anywhere
\* in process_batch and leaves the coroutine.
FoldOutcome(raises) ==
    /\ pc = "fold"
    /\ raises => progress_callback
    /\ LET success == outcome[next_outcome][1]
           payload == outcome[next_outcome][2]
           last == \A i \in ChunkIndexes(Len(items), opts.batch_size, batch_index) :
                      i <= next_outcome
       IN  /\ completed' = completed + 1
           /\ result' = FoldResult(result, success, payload)
           /\ halt' = FoldHalt(halt, success, opts.continue_on_error)
           /\ snapshots' = IF progress_callback
                              THEN Append(snapshots, ProgressPayload(completed', result'))
                              ELSE snapshots
           /\ IF raises
                 THEN /\ pc' = "raised"
                      /\ error' = [NoError EXCEPT !.code = "CALLBACK_ERROR",
                                                  !.message = CallbackError]
                      /\ UNCHANGED next_outcome
                 ELSE /\ UNCHANGED error
                      /\ IF FoldBreaks(halt') \/ last
                            THEN pc' = "loop" /\ UNCHANGED next_outcome
                            ELSE pc' = "fold" /\ next_outcome' = next_outcome + 1
    /\ UNCHANGED <<items, invalid, opts, progress_callback, batch_index, status, attempt,
                   invocations, semaphore, outcome, task_index>>
    /\ UNCHANGED finished

\* the context of the ClickUpServiceError raised at lines 155-162
AbortContext(res) == [failed |-> res.failed, successful |-> res.successful]

\* `if result.failed and not opts.continue_on_error` (line 154)
MustAbort(res, continue_on_error) == res.failed # <<>> /\ ~continue_on_error

\* the chunk loop is left (exhausted, or broken by halt): lines 154-164
Finish ==
    /\ pc = "loop"
    /\ \/ batch_index >= NumChunks(Len(items), opts.batch_size)
       \/ LoopBreaks(halt)
    /\ IF MustAbort(result, opts.continue_on_error)
          THEN /\ pc' = "raised"
               /\ error' = [code |-> "BATCH_ABORTED",
                            message |-> "Batch processing halted due to failure.",
                            context |-> AbortContext(result)]
          ELSE /\ pc' = "returned"
               /\ UNCHANGED error
    /\ UNCHANGED <<items, invalid, opts, progress_callback, batch_index, status, attempt,
                   invocations, semaphore, outcome, next_outcome, completed, halt, result,
                   task_index, snapshots>>
    /\ UNCHANGED finished

\* ------------------------------------------------------------------ Next
RunNext ==
    \/ ProcessBatchStart
    \/ DispatchChunk
    \/ \E i \in Indexes : Acquire(i)
    \/ \E i \in Indexes : ProcessorReturns(i)
    \/ \E i \in Indexes : ProcessorRaises(i)
    \/ \E i \in Indexes : BackoffElapsed(i)
    \/ GatherReturns
    \/ \E raises \in BOOLEAN : FoldOutcome(raises)
    \/ Finish

Next ==
    /\ RunNext
    /\ UNCHANGED <<service_vars, bridge_vars, chunk_vars, backoff_vars, call_vars, frame_vars>>

Spec == Init /\ [][Next]_vars

ServiceSpec == ServiceInit /\ [][Next]_vars

TypeOK ==
    /\ pc \in {"start", "loop", "gather", "fold", "returned", "raised"}
    /\ semaphore \in 0..opts.concurrency
    /\ \A i \in Indexes : status[i] \in {"idle", "waiting", "running", "sleeping", "done"}

\* ------------------------------------------------- the options of a call
\* Option mappings are functions from option names to values; a key that is
\* not in the domain is an absent option.
NumericKeys == {"batch_size", "concurrency", "retry_count", "retry_delay"}
FlagKeys == {"exponential_backoff", "continue_on_error"}

\* the numbers a caller passes: below every minimum, the minimums, ordinary
\* values, the largest configured concurrency and one above it
OverrideValues == {-1, 0, 2, MAX_CONCURRENCY, MaxOverride}

\* callables: none, the caller's own callback, the service's logging wrapper
NoCallback == <<"None">>
UserCallback == <<"user_callback">>
WrapperCallback(user_callback) == <<"_callback">> \o user_callback

\* BatchOptions()
BatchOptionsDefaults ==
    [batch_size |-> DEFAULT_BATCH_SIZE,
     concurrency |-> DEFAULT_CONCURRENCY,
     retry_count |-> DEFAULT_RETRY_COUNT,
     retry_delay |-> DEFAULT_RETRY_DELAY,
     exponential_backoff |-> TRUE,
     continue_on_error |-> TRUE,
     progress_callback |-> NoCallback]

\* mapping.get(key, default)
Get(mapping, key, default) == IF key \in DOMAIN mapping THEN mapping[key] ELSE default

Max(a, b) == IF a >= b THEN a ELSE b

\* variant: the service's defaults win over the per-call options
OverlayDefaultsWin(base, updates) ==
    [k \in DOMAIN base \cup DOMAIN updates |->
        IF k \in DOMAIN base THEN base[k] ELSE updates[k]]

\* merged = dict(base); merged.update(updates)
Overlay(base, updates) ==
    [k \in DOMAIN base \cup DOMAIN updates |->
        IF k \in DOMAIN updates THEN updates[k] ELSE base[k]]

\* BatchOptions.merged
Merged(self, overrides) ==
    IF DOMAIN overrides = {}
       THEN self
       ELSE [batch_size |-> Max(1, Get(overrides, "batch_size", self.batch_size)),
             concurrency |-> Max(1, Get(overrides, "concurrency", self.concurrency)),
             retry_count |-> Max(0, Get(overrides, "retry_count", self.retry_count)),
             retry_delay |-> Max(0, Get(overrides, "retry_delay", self.retry_delay)),
             exponential_backoff |->
                 Get(overrides, "exponential_backoff", self.exponential_backoff),
             continue_on_error |->
                 Get(overrides, "continue_on_error", self.continue_on_error),
             progress_callback |->
                 Get(overrides, "progress_callback", self.progress_callback)]

\* the mappings callers pass as options
OptionMappings ==
    {Overlay(Overlay(n, f), c) :
        n \in UNION {[D -> OverrideValues] : D \in SUBSET NumericKeys},
        f \in UNION {[D -> BOOLEAN] : D \in SUBSET FlagKeys},
        c \in {EmptyMapping, [progress_callback |-> UserCallback]}}

\* the mappings a service is constructed with
BatchDefaultMappings ==
    {Overlay(n, f) :
        n \in {EmptyMapping, [concurrency |-> 0], [concurrency |-> 5]},
        f \in {EmptyMapping, [continue_on_error |-> FALSE]}}

\* a caller about to start a bulk operation on one item
OptionsInit ==
    /\ items = InputOf(1)
    /\ invalid = {}
    /\ opts = BatchOptionsDefaults
    /\ progress_callback = FALSE
    /\ pc = "caller"
    /\ batch_index = 0
    /\ status = [i \in Indexes |-> "idle"]
    /\ attempt = [i \in Indexes |-> 0]
    /\ invocations = [i \in Indexes |-> 0]
    /\ semaphore = 0
    /\ outcome = [i \in Indexes |-> <<>>]
    /\ next_outcome = 0
    /\ completed = 0
    /\ halt = FALSE
    /\ result = EmptyBatchResult
    /\ task_index = [i \in Indexes |-> -1]
    /\ snapshots = <<>>
    /\ finished = <<>>
    /\ error = NoError
    /\ batch_defaults \in BatchDefaultMappings
    /\ options \in OptionMappings
    /\ prepared_options = EmptyMapping
    /\ BridgeIdle
    /\ ChunkIdle
    /\ BackoffIdle
    /\ CallIdle
    /\ FrameIdle

\* variant: no copy is made, the new name is bound to the object itself
DictAlias(object) == object

\* dict(mapping) builds a new dict object: the object the result is, given the
\* object that is copied
DictCopy(object) == "new dict"

\* BulkService._prepare_options, then the call of process_batch with its result.
\* merged.update(...) and merged["progress_callback"] = _callback write to the
\* object `merged` is bound to; `options or {}` is only read.
PrepareOptions ==
    /\ pc = "caller"
    /\ LET merged_object == DictCopy("self._batch_defaults")
           merged == Overlay(batch_defaults, options)
           user_callback == Get(merged, "progress_callback", NoCallback)
           written == Overlay(merged, [progress_callback |-> WrapperCallback(user_callback)])
       IN  /\ prepared_options' = written
           /\ batch_defaults' = IF merged_object = "self._batch_defaults"
                                   THEN written
                                   ELSE batch_defaults
    /\ pc' = "entered"
    /\ UNCHANGED options
    /\ UNCHANGED <<items, invalid, opts, progress_callback, batch_index, status, attempt,
                   invocations, semaphore, outcome, next_outcome, completed, halt, result,
                   task_index, snapshots, finished, error>>

\* a caller without a service passes its options to process_batch as they are
PassOptions ==
    /\ pc = "caller"
    /\ batch_defaults = EmptyMapping
    /\ prepared_options' = options
    /\ pc' = "entered"
    /\ UNCHANGED <<batch_defaults, options>>
    /\ UNCHANGED <<items, invalid, opts, progress_callback, batch_index, status, attempt,
                   invocations, semaphore, outcome, next_outcome, completed, halt, result,
                   task_index, snapshots, finished, error>>

\* process_batch: opts = BatchOptions().merged(options); Semaphore(opts.concurrency)
MergeOptions ==
    /\ pc = "entered"
    /\ Len(items) > 0
    /\ opts' = Merged(BatchOptionsDefaults, prepared_options)
    /\ semaphore' = opts'.concurrency
    /\ progress_callback' = (opts'.progress_callback # NoCallback)
    /\ pc' = "merged"
    /\ UNCHANGED service_vars
    /\ UNCHANGED <<items, invalid, batch_index, status, attempt, invocations, outcome,
                   next_outcome, completed, halt, result, task_index, snapshots, finished,
                   error>>

OptionsNext ==
    /\ \/ PrepareOptions
       \/ PassOptions
       \/ MergeOptions
    /\ UNCHANGED <<bridge_vars, chunk_vars, backoff_vars, call_vars, frame_vars>>

OptionsSpec == OptionsInit /\ [][OptionsNext]_vars

\* ----------------------------------------------------------- _run_sync
\* A coroutine either returns a value or raises; _run_sync sees nothing else
\* of it.  The coroutines of the service are process_batch runs: they return
\* a BatchResult or raise.
\* the BatchResult of a run whose n items all succeeded
BatchResultOf(n) ==
    [type |-> "BatchResult",
     successful |-> [k \in 1..n |-> ProcessorOutput(ItemAt(k - 1))],
     failed |-> <<>>,
     totals |-> [success |-> n, failure |-> 0, total |-> n]]

\* BATCH_ABORTED raised by a run whose item at index idx failed for good
BatchAborted(idx) ==
    [type |-> "ClickUpServiceError",
     code |-> "BATCH_ABORTED",
     context |->
        [failed |-> <<FailureRecord(ItemAt(idx), ProcessorError(ItemAt(idx), 1), idx)>>,
         successful |-> [k \in 1..idx |-> ProcessorOutput(ItemAt(k - 1))]]]

\* an exception of the progress callback, and one that is no Exception
CallbackRaised == [type |-> "ValueError", code |-> CallbackError, context |-> EmptyMapping]
Cancelled == [type |-> "CancelledError", code |-> "", context |-> EmptyMapping]

CoroutineOutcomes ==
    {[kind |-> "return", value |-> v] :
        v \in {NoneValue} \cup {BatchResultOf(n) : n \in 0..MaxItems}}
    \cup
    {[kind |-> "raise", value |-> e] :
        e \in {CallbackRaised, Cancelled} \cup {BatchAborted(idx) : idx \in 0..(MaxItems - 1)}}

\* a thread that is about to call _run_sync for the first time
BridgeInit ==
    /\ RunInit
    /\ items = <<>>
    /\ opts = [batch_size |-> 1, concurrency |-> 1, retry_count |-> 0,
               continue_on_error |-> TRUE]
    /\ progress_callback = TRUE
    /\ invalid = {}
    /\ ServiceIdle
    /\ BridgeIdle
    /\ ChunkIdle
    /\ BackoffIdle
    /\ CallIdle
    /\ FrameIdle

\* a bulk operation calls _run_sync(process_batch(...)), from synchronous
\* code or from inside a running event loop
CallRunSync ==
    /\ call_pc \in {"idle", "done"}
    /\ calls < MaxCalls
    /\ calls' = calls + 1
    /\ loop_running' \in BOOLEAN
    /\ coro' \in CoroutineOutcomes
    /\ loops' = [t \in Threads |-> IF t = "caller" /\ loop_running' THEN 1 ELSE 0]
    /\ nested_calls' = IF loop_running' THEN nested_calls + 1 ELSE nested_calls
    /\ coro_thread' = "none"
    /\ slot' = EmptySlot
    /\ delivered' = NotDelivered
    /\ call_pc' = "get_running_loop"
    /\ worker' = "none"
    /\ UNCHANGED threads_started

\* variant: the coroutine is always run with asyncio.run on the calling thread
UsesWorkerNever(running) == FALSE

\* asyncio.get_running_loop() raises RuntimeError exactly when no loop runs
UsesWorker(running) == running

\* `return asyncio.run(coro)`: a loop starts on the calling thread
AsyncioRun ==
    /\ call_pc = "get_running_loop"
    /\ ~UsesWorker(loop_running)
    /\ loops' = [loops EXCEPT !["caller"] = @ + 1]
    /\ coro_thread' = "caller"
    /\ call_pc' = "asyncio_run"
    /\ UNCHANGED <<loop_running, coro, slot, delivered, calls, nested_calls,
                   threads_started, worker>>

\* asyncio.run has run the coroutine to completion and closed its loop
AsyncioRunCompletes ==
    /\ call_pc = "asyncio_run"
    /\ loops' = [loops EXCEPT !["caller"] = @ - 1]
    /\ delivered' = coro
    /\ call_pc' = "done"
    /\ UNCHANGED <<loop_running, coro, coro_thread, slot, calls, nested_calls,
                   threads_started, worker>>

\* thread = threading.Thread(target=_runner); thread.start()
ThreadStart ==
    /\ call_pc = "get_running_loop"
    /\ UsesWorker(loop_running)
    /\ threads_started' = threads_started + 1
    /\ worker' = "started"
    /\ call_pc' = "join"
    /\ UNCHANGED <<loop_running, coro, loops, coro_thread, slot, delivered, calls,
                   nested_calls>>

\* _runner: new_event_loop, set_event_loop, run_until_complete begins
RunnerStarts ==
    /\ worker = "started"
    /\ loops' = [loops EXCEPT !["worker"] = @ + 1]
    /\ coro_thread' = "worker"
    /\ worker' = "run_until_complete"
    /\ UNCHANGED <<call_pc, loop_running, coro, slot, delivered, calls, nested_calls,
                   threads_started>>

\* _runner: the value is stored or the BaseException caught; the loop is closed
RunnerFinishes ==
    /\ worker = "run_until_complete"
    /\ slot' = IF coro.kind = "return"
                  THEN [slot EXCEPT !.result = [value |-> coro.value]]
                  ELSE [slot EXCEPT !.error = Append(@, coro.value)]
    /\ loops' = [loops EXCEPT !["worker"] = @ - 1]
    /\ worker' = "terminated"
    /\ UNCHANGED <<call_pc, loop_running, coro, coro_thread, delivered, calls,
                   nested_calls, threads_started>>

\* variant: the error list is not looked at
DeliveredIgnoresError(s) == [kind |-> "return", value |-> Get(s.result, "value", NoneValue)]

\* `if error: raise error[0]`, else `return result.get("value")`
Delivered(s) ==
    IF s.error # <<>>
       THEN [kind |-> "raise", value |-> s.error[1]]
       ELSE [kind |-> "return", value |-> Get(s.result, "value", NoneValue)]

\* variant: join does not wait for the worker
JoinReturnsAtOnce(w) == TRUE

\* thread.join() returns when the thread has terminated
JoinReturns(w) == w = "terminated"

\* thread.join() returns; the caller raises or returns what the worker left
ThreadJoined ==
    /\ call_pc = "join"
    /\ JoinReturns(worker)
    /\ delivered' = Delivered(slot)
    /\ call_pc' = "done"
    /\ UNCHANGED <<loop_running, coro, loops, coro_thread, slot, calls, nested_calls,
                   threads_started, worker>>

BridgeNext ==
    /\ \/ CallRunSync
       \/ AsyncioRun
       \/ AsyncioRunCompletes
       \/ ThreadStart
       \/ RunnerStarts
       \/ RunnerFinishes
       \/ ThreadJoined
    /\ UNCHANGED <<run_vars, service_vars, chunk_vars, backoff_vars, call_vars, frame_vars>>

BridgeSpec == BridgeInit /\ [][BridgeNext]_vars

\* ------------------------------------------------- _chunked, step by step
\* The generator is observed on sequences of arbitrary items, equal items
\* included.
Symbols == {"a", "b"}

\* variant: the slice takes one item more
SliceInclusive(seq, lo, hi) ==
    SubSeq(seq, lo + 1, IF hi + 1 < Len(seq) THEN hi + 1 ELSE Len(seq))

\* seq[lo:hi] for 0 <= lo <= hi
Slice(seq, lo, hi) == SubSeq(seq, lo + 1, IF hi < Len(seq) THEN hi ELSE Len(seq))

\* a caller about to iterate _chunked(items, size)
ChunkInit ==
    /\ \E n \in 0..MaxItems : items \in [1..n -> Symbols]
    /\ \E size \in 1..MaxBatchSize :
          opts = [batch_size |-> size, concurrency |-> 1, retry_count |-> 0,
                  continue_on_error |-> TRUE]
    /\ pc = "chunking"
    /\ progress_callback = FALSE
    /\ invalid = {}
    /\ TasksIdle
    /\ ServiceIdle
    /\ BridgeIdle
    /\ ChunkIdle
    /\ BackoffIdle
    /\ CallIdle
    /\ FrameIdle

\* `for start in range(0, len(items), size): yield items[start : start + size]`
ChunkedYields ==
    /\ pc = "chunking"
    /\ chunk_start < Len(items)
    /\ chunks' = Append(chunks, Slice(items, chunk_start, chunk_start + opts.batch_size))
    /\ chunk_start' = chunk_start + opts.batch_size
    /\ UNCHANGED pc

\* the range is exhausted: the generator stops
ChunkedStops ==
    /\ pc = "chunking"
    /\ chunk_start >= Len(items)
    /\ pc' = "exhausted"
    /\ UNCHANGED chunk_vars

ChunkNext ==
    /\ \/ ChunkedYields
       \/ ChunkedStops
    /\ UNCHANGED <<items, invalid, opts, progress_callback, batch_index, status, attempt,
                   invocations, semaphore, outcome, next_outcome, completed, halt, result,
                   task_index, snapshots, finished, error>>
    /\ UNCHANGED <<service_vars, bridge_vars, backoff_vars, call_vars, frame_vars>>

ChunkSpec == ChunkInit /\ [][ChunkNext]_vars

\* ------------------------------------------------ _run_single: backoff
\* Times are counted in ticks of a quarter of a second, so that a quarter of a
\* wait is a whole number for the delays drawn; random.uniform is a choice
\* among the ticks of its interval.

\* variant: the exponent is the attempt number itself
WaitDelayFromAttempt(delay, exponential_backoff, att) ==
    IF exponential_backoff /\ delay > 0 THEN delay * 2 ^ att ELSE delay

\* wait_delay = delay; if options.exponential_backoff and delay > 0:
\*     wait_delay = delay * (2 ** (attempt - 1))        (lines 89-91)
WaitDelay(delay, exponential_backoff, att) ==
    IF exponential_backoff /\ delay > 0 THEN delay * 2 ^ (att - 1) ELSE delay

\* jitter = random.uniform(0, wait_delay * 0.25) if wait_delay else 0.0 (line 92)
JitterChoices(wait_delay) ==
    IF wait_delay # 0 THEN 0..(wait_delay \div 4) ELSE {0}

\* one item, run alone, with any retry options
BackoffInit ==
    /\ items = InputOf(1)
    /\ opts \in [batch_size : {1},
                 concurrency : {1},
                 retry_count : 0..MaxBackoffRetries,
                 retry_delay : 0..MaxRetryDelay,
                 exponential_backoff : BOOLEAN,
                 continue_on_error : BOOLEAN]
    /\ pc = "start"
    /\ progress_callback \in BOOLEAN
    /\ invalid = {}
    /\ TasksIdle
    /\ ServiceIdle
    /\ BridgeIdle
    /\ ChunkIdle
    /\ BackoffIdle
    /\ CallIdle
    /\ FrameIdle

\* the except clause of _run_single: when the item is to be retried, the wait
\* is computed and slept (lines 85-93)
RaisesAndSleeps(i) ==
    /\ ProcessorRaises(i)
    /\ IF status'[i] = "sleeping"
          THEN LET wait_delay == WaitDelay(opts.retry_delay, opts.exponential_backoff,
                                           attempt'[i])
               IN  \E jitter \in JitterChoices(wait_delay) :
                      waits' = Append(waits, [index |-> i,
                                              attempt |-> attempt'[i],
                                              wait_delay |-> wait_delay,
                                              jitter |-> jitter,
                                              slept |-> wait_delay + jitter])
          ELSE UNCHANGED waits

BackoffNext ==
    /\ \/ \E i \in Indexes : RaisesAndSleeps(i)
       \/ /\ \/ ProcessBatchStart
             \/ DispatchChunk
             \/ \E i \in Indexes : Acquire(i)
             \/ \E i \in Indexes : ProcessorReturns(i)
             \/ \E i \in Indexes : BackoffElapsed(i)
             \/ GatherReturns
             \/ \E raises \in BOOLEAN : FoldOutcome(raises)
             \/ Finish
          /\ UNCHANGED waits
    /\ UNCHANGED <<service_vars, bridge_vars, chunk_vars, call_vars, frame_vars>>

BackoffSpec == BackoffInit /\ [][BackoffNext]_vars

\* -------------------------------------------------- BulkService: a bulk call
\* One call of create_bulk_tasks, move_bulk_tasks or delete_bulk_tasks
\* (update_bulk_tasks differs from delete_bulk_tasks by its payload only and
\* is not modelled).  The client is external: ensure_team_id, resolve_list_id
\* and resolve_task_id return or raise, request_checked returns or raises.
\* Identifiers of tasks are sequences of characters, so that the pattern test
\* of _is_standard_task_id is computed; names and list ids are strings, ""
\* standing for an absent one (_coalesce_entry_value treats None and "" alike).
LowerAlnum ==
    {"0", "1", "2", "3", "4", "5", "6", "7", "8", "9",
     "a", "b", "c", "d", "e", "f", "g", "h", "i", "j", "k", "l", "m",
     "n", "o", "p", "q", "r", "s", "t", "u", "v", "w", "x", "y", "z"}

\* _STANDARD_TASK_ID_PATTERN = ^[0-9a-z]{7,12}$, matched in full
IsStandardTaskId(task_id) ==
    /\ Len(task_id) >= 7
    /\ Len(task_id) <= 12
    /\ \A k \in 1..Len(task_id) : task_id[k] \in LowerAlnum

\* "86abc12", "task-123", and the id resolve_task_id returns for a name
StandardId == <<"8", "6", "a", "b", "c", "1", "2">>
PlainId == <<"t", "a", "s", "k", "-", "1", "2", "3">>
FoundId == <<"8", "6", "x", "y", "z", "9", "9">>

\* the entries a caller passes, by operation
EntriesOf(operation) ==
    IF operation = "create"
       THEN {[taskId |-> NoTaskId, customTaskId |-> NoTaskId, taskName |-> "",
              listId |-> l, name |-> n] : l \in {"", "list-9"}, n \in {"", "Task"}}
       ELSE {[taskId |-> StandardId, customTaskId |-> NoTaskId, taskName |-> "",
              listId |-> "", name |-> ""],
             [taskId |-> PlainId, customTaskId |-> NoTaskId, taskName |-> "",
              listId |-> "", name |-> ""],
             [taskId |-> NoTaskId, customTaskId |-> NoTaskId, taskName |-> "Write",
              listId |-> "", name |-> ""]}

\* a service and a caller about to make one bulk call
CallInit ==
    /\ call \in [operation : {"create", "move", "delete"},
                 team_id : {NoTeam, <<7>>},
                 list_id : {"", "list-1"},
                 list_name : {"", "Inbox"}]
    /\ call.operation = "delete" => (call.list_id = "" /\ call.list_name = "")
    /\ client \in [default_team_id : {NoTeam, <<999>>},
                   known_list : BOOLEAN,
                   oauth : {FALSE}]
    /\ \E n \in 0..MaxEntries : items \in [1..n -> EntriesOf(call.operation)]
    /\ opts \in [batch_size : {1},
                 concurrency : {1},
                 retry_count : 0..MaxRetryCount,
                 continue_on_error : {TRUE}]
    /\ pc = "called"
    /\ progress_callback = TRUE
    /\ invalid = {}
    /\ resolved_team = NoTeam
    /\ resolved_list = ""
    /\ list_resolutions = 0
    /\ requests = <<>>
    /\ TasksIdle
    /\ ServiceIdle
    /\ BridgeIdle
    /\ ChunkIdle
    /\ BackoffIdle
    /\ FrameIdle

\* ClickUpServiceError raised by the service before any item is processed
ServiceError(code) ==
    [code |-> code, message |-> "", context |-> [failed |-> <<>>, successful |-> <<>>]]

\* variant: a client that makes up a team when none is known
EnsureTeamIdLenient(cl, team_id) == IF team_id # NoTeam THEN team_id ELSE <<0>>

\* client.ensure_team_id: the given team, else the default one, else it raises
\* (NoTeam stands for the raise)
EnsureTeamId(cl, team_id) == IF team_id # NoTeam THEN team_id ELSE cl.default_team_id

\* BulkService._ensure_team, first statement of every bulk operation
EnsureTeam ==
    /\ pc = "called"
    /\ IF EnsureTeamId(client, call.team_id) = NoTeam
          THEN /\ pc' = "raised"
               /\ error' = ServiceError("INVALID_PARAMETER")
               /\ UNCHANGED resolved_team
          ELSE /\ resolved_team' = EnsureTeamId(client, call.team_id)
               /\ pc' = IF call.operation \in {"create", "move"} THEN "team" ELSE "prepared"
               /\ UNCHANGED error
    /\ UNCHANGED <<call, client, resolved_list, list_resolutions, requests>>
    /\ UNCHANGED <<items, invalid, opts, progress_callback, coordinator_vars>>

\* variant: the list name is resolved once for every entry
ResolutionsPerEntry(count, list_id, list_name) ==
    IF list_id = "" /\ list_name # "" THEN count + Len(items) ELSE count

\* the client.resolve_list_id calls made once _resolve_default_list has run:
\* one more when the list is given by name only
ResolutionsAfter(count, list_id, list_name) ==
    IF list_id = "" /\ list_name # "" THEN count + 1 ELSE count

\* BulkService._resolve_default_list, and the test of move_bulk_tasks on its result
ResolveDefaultList ==
    /\ pc = "team"
    /\ IF call.list_id # ""
          THEN /\ resolved_list' = call.list_id
               /\ pc' = "prepared"
               /\ UNCHANGED error
          ELSE IF call.list_name # ""
          THEN /\ IF client.known_list
                     THEN /\ resolved_list' = "resolved-list"
                          /\ pc' = "prepared"
                          /\ UNCHANGED error
                     ELSE /\ pc' = "raised"
                          /\ error' = ServiceError("NOT_FOUND")
                          /\ UNCHANGED resolved_list
          ELSE /\ UNCHANGED resolved_list
               /\ IF call.operation = "move"
                     THEN /\ pc' = "raised"
                          /\ error' = ServiceError("INVALID_PARAMETER")
                     ELSE /\ pc' = "prepared"
                          /\ UNCHANGED error
    /\ list_resolutions' = ResolutionsAfter(list_resolutions, call.list_id, call.list_name)
    /\ UNCHANGED <<call, client, resolved_team, requests>>
    /\ UNCHANGED <<items, invalid, opts, progress_callback, coordinator_vars>>

\* BulkService._resolve_list_for_entry: the list of the entry, else the default
\* list of the call, else "" (INVALID_PARAMETER)
ResolveListForEntry(entry, default_list_id) ==
    IF entry.listId # "" THEN entry.listId ELSE default_list_id

\* BulkService._build_task_query_params
BuildTaskQueryParams(resolved_task_id, custom_task_id, team_id) ==
    LET use_custom == custom_task_id # NoTaskId \/ ~IsStandardTaskId(resolved_task_id)
        team == EnsureTeamId(client, team_id)
    IN  Overlay(IF use_custom THEN [custom_task_ids |-> "true"] ELSE EmptyMapping,
                IF team # NoTeam /\ (use_custom \/ client.oauth)
                   THEN [team_id |-> team] ELSE EmptyMapping)

\* `query_params=query or None`
OrNone(query) == IF DOMAIN query = {} THEN NoneValue ELSE query

\* what one attempt of the processor does for an entry: the request_checked
\* calls it makes and whether it returns.  found: client.resolve_task_id finds
\* the named task; accepted: request_checked gets a status below 400.
CreateTask(entry, found, accepted) ==
    LET list_id == ResolveListForEntry(entry, resolved_list)
    IN  IF list_id = "" \/ entry.name = ""
           THEN [ok |-> FALSE, calls |-> <<>>]
           ELSE [ok |-> accepted,
                 calls |-> <<[method |-> "POST",
                              path |-> <<"/list/", list_id, "/task">>,
                              query_params |-> NoneValue]>>]

\* BulkService._extract_lookup and _resolve_task_identifier: the identifier to
\* use, or NoTaskId when client.resolve_task_id raised
ResolveTaskIdentifier(entry, found) ==
    LET identifier == IF entry.taskId = NoTaskId THEN entry.customTaskId ELSE entry.taskId
    IN  IF identifier # NoTaskId /\ IsStandardTaskId(identifier) THEN identifier
        ELSE IF entry.taskName # "" \/ entry.listId # "" \/ identifier = NoTaskId
             THEN (IF found /\ entry.taskName # "" THEN FoundId ELSE NoTaskId)
        ELSE identifier

\* BulkService._move_task and BulkService._delete_task
TaskRequest(operation, entry, found, accepted) ==
    LET resolved_id == ResolveTaskIdentifier(entry, found)
        query == BuildTaskQueryParams(resolved_id, entry.customTaskId, resolved_team)
    IN  IF resolved_id = NoTaskId
           THEN [ok |-> FALSE, calls |-> <<>>]
           ELSE [ok |-> accepted,
                 calls |-> <<[method |-> IF operation = "move" THEN "POST" ELSE "DELETE",
                              path |-> IF operation = "move"
                                          THEN <<"/task/", resolved_id, "/move">>
                                          ELSE <<"/task/", resolved_id>>,
                              query_params |-> OrNone(query)]>>]

\* the processor closure of the operation
ProcessorAttempt(entry, found, accepted) ==
    IF call.operation = "create"
       THEN CreateTask(entry, found, accepted)
       ELSE TaskRequest(call.operation, entry, found, accepted)

\* the request_checked calls of an attempt, tagged with the item and the attempt
Recorded(i, made) ==
    [k \in 1..Len(made) |->
        [index |-> i, invocation |-> invocations[i], method |-> made[k].method,
         path |-> made[k].path, query_params |-> made[k].query_params]]

\* entries, processor, _prepare_options, _run_sync(process_batch(...)): the
\* entries that no behaviour of the client makes succeed are the invalid ones
StartBatch ==
    /\ pc = "prepared"
    /\ pc' = "start"
    /\ invalid' = {i \in Indexes :
                      \A found \in BOOLEAN, accepted \in BOOLEAN :
                          ~ProcessorAttempt(items[i + 1], found, accepted).ok}
    /\ UNCHANGED call_vars
    /\ UNCHANGED <<items, opts, progress_callback, error, coordinator_vars>>

\* an attempt of the processor ends well
AttemptReturns(i) ==
    /\ ProcessorReturns(i)
    /\ \E found \in BOOLEAN, accepted \in BOOLEAN :
          LET att == ProcessorAttempt(items[i + 1], found, accepted)
          IN  /\ att.ok
              /\ requests' = requests \o Recorded(i, att.calls)
    /\ UNCHANGED <<call, client, resolved_team, resolved_list, list_resolutions>>

\* an attempt of the processor raises
AttemptRaises(i) ==
    /\ ProcessorRaises(i)
    /\ \E found \in BOOLEAN, accepted \in BOOLEAN :
          LET att == ProcessorAttempt(items[i + 1], found, accepted)
          IN  /\ ~att.ok
              /\ requests' = requests \o Recorded(i, att.calls)
    /\ UNCHANGED <<call, client, resolved_team, resolved_list, list_resolutions>>

\* _log_completion and `return result`
LogCompletion ==
    /\ pc = "returned"
    /\ pc' = "completed"
    /\ UNCHANGED call_vars
    /\ UNCHANGED <<items, invalid, opts, progress_callback, error, coordinator_vars>>

CallNext ==
    /\ \/ EnsureTeam
       \/ ResolveDefaultList
       \/ StartBatch
       \/ \E i \in Indexes : AttemptReturns(i)
       \/ \E i \in Indexes : AttemptRaises(i)
       \/ LogCompletion
       \/ /\ \/ ProcessBatchStart
             \/ DispatchChunk
             \/ \E i \in Indexes : Acquire(i)
             \/ \E i \in Indexes : BackoffElapsed(i)
             \/ GatherReturns
             \/ FoldOutcome(FALSE)
             \/ Finish
          /\ UNCHANGED call_vars
    /\ UNCHANGED <<service_vars, bridge_vars, chunk_vars, backoff_vars, frame_vars>>

CallSpec == CallInit /\ [][CallNext]_vars

\* ------------------------------------------ BulkService: what a call is handed
\* One bulk call from its entry to its end, with the objects of the caller:
\* the task entries, the options mapping, and the batch defaults the service
\* was constructed with.  The processor is any processor.
MaxTasks == 2

\* the entries of the caller: with and without the required name
TaskEntries == {[name |-> "Task"], [name |-> ""]}

\* the option mappings of the caller: none, and some that set the retry count
CallerOptionMappings ==
    {EmptyMapping,
     [retry_count |-> 0],
     [retry_count |-> 0, progress_callback |-> UserCallback],
     [batch_size |-> 1, retry_count |-> 1, continue_on_error |-> FALSE],
     [concurrency |-> 2, retry_count |-> 1, progress_callback |-> UserCallback]}

\* a service and a caller about to start a bulk operation
FrameInit ==
    /\ \E n \in 0..MaxTasks : tasks \in [1..n -> TaskEntries]
    /\ options \in CallerOptionMappings
    /\ batch_defaults \in BatchDefaultMappings
    /\ prepared_options = EmptyMapping
    /\ items = <<>>
    /\ invalid = {}
    /\ opts = BatchOptionsDefaults
    /\ progress_callback = FALSE
    /\ pc = "caller"
    /\ TasksIdle
    /\ BridgeIdle
    /\ ChunkIdle
    /\ BackoffIdle
    /\ CallIdle

\* entries = [dict(task) for task in tasks] (bulk_service.py line 56) and
\* process_batch lines 103-115 on them: materialise, fix totals.total, return
\* at once on an empty input, otherwise merge the options, size the semaphore
\* and enter the chunk loop
EnterProcessBatch ==
    /\ pc = "entered"
    /\ items' = [k \in 1..Len(tasks) |-> tasks[k]]
    /\ result' = [EmptyBatchResult EXCEPT !.totals.total = Len(tasks)]
    /\ status' = [i \in 0..(Len(tasks) - 1) |-> "idle"]
    /\ attempt' = [i \in 0..(Len(tasks) - 1) |-> 0]
    /\ invocations' = [i \in 0..(Len(tasks) - 1) |-> 0]
    /\ outcome' = [i \in 0..(Len(tasks) - 1) |-> <<>>]
    /\ task_index' = [i \in 0..(Len(tasks) - 1) |-> -1]
    /\ IF Len(tasks) = 0
          THEN /\ pc' = "returned"
               /\ UNCHANGED <<opts, semaphore, progress_callback>>
          ELSE /\ pc' = "loop"
               /\ opts' = Merged(BatchOptionsDefaults, prepared_options)
               /\ semaphore' = opts'.concurrency
               /\ progress_callback' = (opts'.progress_callback # NoCallback)
    /\ completed' = 0
    /\ halt' = FALSE
    /\ UNCHANGED <<invalid, batch_index, next_outcome, snapshots, finished, error>>
    /\ UNCHANGED <<service_vars, frame_vars>>

FrameNext ==
    /\ \/ PrepareOptions /\ UNCHANGED frame_vars
       \/ EnterProcessBatch
       \/ /\ \/ DispatchChunk
             \/ \E i \in Indexes : Acquire(i)
             \/ \E i \in Indexes : ProcessorReturns(i)
             \/ \E i \in Indexes : ProcessorRaises(i)
             \/ \E i \in Indexes : BackoffElapsed(i)
             \/ GatherReturns
             \/ \E raises \in BOOLEAN : FoldOutcome(raises)
             \/ Finish
          /\ UNCHANGED <<service_vars, frame_vars>>
    /\ UNCHANGED <<bridge_vars, chunk_vars, backoff_vars, call_vars>>

FrameSpec == FrameInit /\ [][FrameNext]_vars

\* ------------------------------------------------ process_batch: scheduling
\* The event loop runs every task that is ready: as long as some step of the
\* run can be taken, one is taken.  Processor and callback invocations end
\* (ProcessorReturns, ProcessorRaises and FoldOutcome are such steps).
MaxLiveItems == 2

LiveInit ==
    /\ \E n \in 0..MaxLiveItems : items = InputOf(n)
    /\ opts \in [batch_size : 1..MaxLiveItems,
                 concurrency : 1..MaxLiveItems,
                 retry_count : 0..MaxRetryCount,
                 continue_on_error : BOOLEAN]
    /\ pc = "start"
    /\ progress_callback \in BOOLEAN
    /\ invalid = {}
    /\ TasksIdle
    /\ ServiceIdle
    /\ BridgeIdle
    /\ ChunkIdle
    /\ BackoffIdle
    /\ CallIdle
    /\ FrameIdle

LiveSpec == LiveInit /\ [][Next]_vars /\ WF_vars(Next)

\* ------------------------------------------------------ shared vocabulary
Ended == pc \in {"returned", "raised"}

Aborted == pc = "raised" /\ error.code = "BATCH_ABORTED"

Range(seq) == {seq[k] : k \in 1..Len(seq)}

Dispatched(i) == status[i] # "idle"

Terminal(i) == outcome[i] # <<>>

FailedTerminally(i) == Terminal(i) /\ ~outcome[i][1]

\* the processor has not returned for the item at index i: every invocation for
\* it that ended so far raised
NeverReturned(i) == ~(Terminal(i) /\ outcome[i][1])

\* the processor has not raised for the item at index i
NeverRaised(i) == attempt[i] = 0

InFlight == Cardinality({i \in Indexes : status[i] = "running"})

\* entries of a failed list that belong to index i
RecordsOf(failedList, i) == {k \in 1..Len(failedList) : failedList[k].index = i}

\* entries of a successful list that are the output of the item at index i
OutputsOf(successList, i) ==
    {k \in 1..Len(successList) : successList[k] = ProcessorOutput(items[i + 1])}

\* ---------------------------------------------------------------- claims

\* C1: when a run over a non-empty input with continue_on_error = true returns,
\* totals.success + totals.failure = totals.total = len(items), totals.success =
\* len(successful) and totals.failure = len(failed).
C1_TotalsAddUp ==
    (pc = "returned" /\ Len(items) > 0 /\ opts.continue_on_error) =>
        /\ result.totals.success + result.totals.failure = result.totals.total
        /\ result.totals.total = Len(items)
        /\ result.totals.success = Len(result.successful)
        /\ result.totals.failure = Len(result.failed)

C1_Witness ==
    /\ pc = "returned" /\ opts.continue_on_error
    /\ Len(items) >= 3 /\ batch_index >= 2
    /\ result.successful # <<>> /\ result.failed # <<>>

\* C2: the number of processor invocations in flight never exceeds concurrency.
C2_ConcurrencyBound == InFlight <= opts.concurrency

C2_Witness ==
    /\ opts.concurrency >= 2 /\ InFlight = opts.concurrency
    /\ \E i \in Indexes : status[i] = "waiting" /\ attempt[i] > 0

\* C3: an item whose processor raises on every attempt is passed to the processor
\* exactly retry_count + 1 times, then exactly one FailureRecord is produced for it
\* and it is never attempted again.
C3_RetryBound ==
    \A i \in Indexes : NeverReturned(i) =>
        /\ invocations[i] <= opts.retry_count + 1
        /\ status[i] = "done" =>
              /\ invocations[i] = opts.retry_count + 1
              /\ FailedTerminally(i)
        /\ attempt[i] = opts.retry_count + 1 => status[i] = "done"
        /\ Cardinality(RecordsOf(result.failed, i)) <= 1
        /\ RecordsOf(result.failed, i) # {} => status[i] = "done"
        /\ (pc = "returned" /\ opts.continue_on_error /\ Dispatched(i)) =>
              Cardinality(RecordsOf(result.failed, i)) = 1

C3_Witness ==
    \E i \in Indexes :
        /\ NeverReturned(i) /\ opts.retry_count >= 1
        /\ invocations[i] = opts.retry_count + 1
        /\ Cardinality(RecordsOf(result.failed, i)) = 1
        /\ Ended

\* C4: the run raises BATCH_ABORTED if and only if continue_on_error = false and
\* at least one item exhausted its retries; in every other case it returns normally.
C4_AbortIffHaltingFailure ==
    Ended =>
        IF ~opts.continue_on_error /\ (\E i \in Indexes : FailedTerminally(i))
           THEN Aborted
           ELSE pc = "returned"

\* the run of C5: three items, the processor raised for the second one only and
\* never returned for it
C5_Scenario ==
    /\ Len(items) = 3
    /\ NeverRaised(0) /\ NeverReturned(1) /\ NeverRaised(2)
    /\ opts.concurrency = 1 /\ ~opts.continue_on_error

\* C5: items [ok, fail, ok2], only fail raises, concurrency = 1, continue_on_error
\* = false, any batch_size, no failing progress callback: the run raises the abort
\* error with ok's output in successful and fail's record in failed, and ok2 is in
\* neither list.

C5_HaltScenario ==
    (C5_Scenario /\ Ended /\ error.code # "CALLBACK_ERROR") =>
        /\ Aborted
        /\ error.context.successful = <<ProcessorOutput(ItemAt(0))>>
        /\ Len(error.context.failed) = 1
        /\ error.context.failed[1].item = ItemAt(1)
        /\ error.context.failed[1].index = 1
        /\ OutputsOf(error.context.successful, 2) = {}
        /\ RecordsOf(error.context.failed, 2) = {}

C5_Witness ==
    /\ C5_Scenario /\ Aborted
    /\ opts.batch_size >= 3 /\ invocations[2] = 1

\* C6: with continue_on_error = false, every item that had been dispatched when the
\* run halted appears in successful or in failed of the raised abort error.
C6_DispatchedOutcomesFolded ==
    Aborted =>
        \A i \in Indexes : Dispatched(i) =>
            \/ OutputsOf(error.context.successful, i) # {}
            \/ RecordsOf(error.context.failed, i) # {}

\* C7: with continue_on_error = false, once an item of chunk c has failed
\* terminally, no item of a later chunk is ever passed to the processor.
C7_NoLaterChunkStarted ==
    ~opts.continue_on_error =>
        \A i, j \in Indexes :
            (FailedTerminally(i) /\ ChunkOf(j, opts.batch_size) > ChunkOf(i, opts.batch_size))
                => (invocations[j] = 0 /\ ~Dispatched(j))

C7_Witness ==
    /\ ~opts.continue_on_error /\ Aborted
    /\ \E i, j \in Indexes :
          /\ FailedTerminally(i)
          /\ ChunkOf(j, opts.batch_size) > ChunkOf(i, opts.batch_size)

\* C8: when the run raises or returns, every dispatched item has reached its
\* terminal outcome: none is in flight, waiting for a permit or in backoff, and
\* every permit is back.
C8_NothingLeftRunning ==
    (Ended /\ Len(items) > 0) =>
        /\ \A i \in Indexes : Dispatched(i) => (status[i] = "done" /\ Terminal(i))
        /\ semaphore = opts.concurrency

C8_Witness ==
    /\ Aborted
    /\ \E i, j \in Indexes :
          /\ i < j /\ FailedTerminally(i)
          /\ RecordsOf(error.context.failed, i) # {}
          /\ attempt[j] > 0 /\ status[j] = "done"

\* C9: the partial result attached to the abort error reports totals whose total
\* equals the original input length.
C9_AbortCarriesPlannedTotal ==
    Aborted =>
        /\ "totals" \in DOMAIN error.context
        /\ error.context.totals.total = Len(items)

\* C10: a failing progress callback does not abort the run: the run still ends by
\* returning or by BATCH_ABORTED, and with continue_on_error = true every item is
\* folded.
C10_CallbackFailureContained ==
    Ended =>
        /\ error.code # "CALLBACK_ERROR"
        /\ opts.continue_on_error => completed = Len(items)

\* C13: the progress callback is invoked exactly once for every item that reaches
\* a terminal outcome and never otherwise; with continue_on_error = true it is
\* invoked len(items) times; completed never decreases between invocations.
C13_OneSnapshotPerTerminalItem ==
    progress_callback =>
        /\ Len(snapshots) <= Cardinality({i \in Indexes : Terminal(i)})
        /\ Ended => Len(snapshots) = Cardinality({i \in Indexes : Terminal(i)})
        /\ (Ended /\ opts.continue_on_error) => Len(snapshots) = Len(items)
        /\ \A k \in 1..(Len(snapshots) - 1) :
              snapshots[k].completed <= snapshots[k + 1].completed

\* C14: for an empty input the run returns successful = [], failed = [] and totals
\* {0, 0, 0} without invoking the processor or the progress callback, whatever the
\* options are.
C14_EmptyInput ==
    Len(items) = 0 =>
        /\ pc \in {"start", "returned"}
        /\ error = NoError
        /\ snapshots = <<>>
        /\ batch_index = 0 /\ semaphore = 0 /\ completed = 0
        /\ \A i \in DOMAIN invocations : invocations[i] = 0
        /\ pc = "returned" =>
              result = [successful |-> <<>>, failed |-> <<>>,
                        totals |-> [success |-> 0, failure |-> 0, total |-> 0]]

C14_Witness ==
    /\ Len(items) = 0 /\ pc = "returned"
    /\ ~opts.continue_on_error /\ progress_callback

\* the record C15 expects for the item at index i
C15_ExpectedRecord(i) ==
    [item |-> ItemAt(i),
     error |-> ExceptionMessage(i, opts.retry_count + 1),
     index |-> i]

\* C15: every FailureRecord carries the failing item, the message of its final
\* attempt's exception and the item's position in the original input, in every
\* chunk and for every batch_size.
C15_FailureRecordFields ==
    /\ \A i \in Indexes : FailedTerminally(i) => outcome[i][2] = C15_ExpectedRecord(i)
    /\ \A k \in 1..Len(result.failed) :
          \E i \in Indexes : FailedTerminally(i) /\ result.failed[k] = C15_ExpectedRecord(i)
    /\ \A k \in 1..Len(error.context.failed) :
          \E i \in Indexes :
              FailedTerminally(i) /\ error.context.failed[k] = C15_ExpectedRecord(i)

C15_Witness ==
    /\ opts.batch_size >= 2 /\ opts.retry_count >= 1
    /\ \E k \in 1..Len(result.failed) :
          /\ result.failed[k].index >= opts.batch_size
          /\ result.failed[k].item = ItemAt(result.failed[k].index)

\* C16: with continue_on_error = true every item of the input is passed to the
\* processor at least once and at most retry_count + 1 times; stated for the end
\* of the run, after which nothing more is attempted.
C16_EveryItemAttempted ==
    (Ended /\ opts.continue_on_error) =>
        \A i \in Indexes : 1 <= invocations[i] /\ invocations[i] <= opts.retry_count + 1

\* the task of index a returned before the task of index b (both of the current chunk)
FinishedBefore(a, b) ==
    \E p, q \in 1..Len(finished) : p < q /\ finished[p] = a /\ finished[q] = b

\* a's entry precedes b's entry in the list both ended in
EntryPrecedes(a, b) ==
    /\ \A k \in OutputsOf(result.successful, a) :
          \A l \in OutputsOf(result.successful, b) : k < l
    /\ \A k \in RecordsOf(result.failed, a) :
          \A l \in RecordsOf(result.failed, b) : k < l

InSameList(a, b) ==
    \/ OutputsOf(result.successful, a) # {} /\ OutputsOf(result.successful, b) # {}
    \/ RecordsOf(result.failed, a) # {} /\ RecordsOf(result.failed, b) # {}

\* C12 as stated: entries are in completion order: when two items end in the same
\* list and A reached its terminal outcome before B, A's entry precedes B's.
C12_CompletionOrder ==
    \A a, b \in Indexes : (FinishedBefore(a, b) /\ InSameList(a, b)) => EntryPrecedes(a, b)

\* C12 as amended: entries are in input order: when two items end in the same list,
\* the entry of the one with the lower index precedes, whichever finished first.
C12_InputOrder ==
    \A a, b \in Indexes : (a < b /\ InSameList(a, b)) => EntryPrecedes(a, b)

C12_Witness ==
    \E a, b \in Indexes :
        /\ a < b /\ FinishedBefore(b, a)
        /\ InSameList(a, b) /\ EntryPrecedes(a, b)

\* C11: an entry with a missing required field or identifier is never retried: its
\* processing is attempted at most once and no backoff wait is taken for it.
C11_InvalidEntryNeverRetried ==
    \A i \in invalid : invocations[i] <= 1 /\ status[i] # "sleeping"

\* ------------------------------------------------------------------
\* C17: the capacity gate of a run is sized at least 1 and never above
\* MAX_CONCURRENCY, whatever concurrency the caller's options supply.
C17_ConcurrencyCapped ==
    pc = "merged" => (1 <= semaphore /\ semaphore <= MAX_CONCURRENCY)

\* ------------------------------------------------------------------
\* C18: every effective option is the per-call option when the caller passed
\* one, else the service's batch default when it has one, else the default of
\* BatchOptions; numeric options below their minimum are raised to it.
C18_Minimum(f) == IF f \in {"batch_size", "concurrency"} THEN 1 ELSE 0

C18_Chosen(f) ==
    IF f \in DOMAIN options THEN options[f]
    ELSE IF f \in DOMAIN batch_defaults THEN batch_defaults[f]
    ELSE BatchOptionsDefaults[f]

C18_EffectiveOptions ==
    pc = "merged" =>
        /\ \A f \in NumericKeys :
              opts[f] = IF C18_Chosen(f) < C18_Minimum(f)
                           THEN C18_Minimum(f) ELSE C18_Chosen(f)
        /\ \A f \in FlagKeys : opts[f] = C18_Chosen(f)

\* a service whose batch default for concurrency is overridden by the call,
\* with a batch size below the minimum and no retry option at all
C18_Witness ==
    /\ pc = "merged"
    /\ "concurrency" \in DOMAIN batch_defaults
    /\ "concurrency" \in DOMAIN options
    /\ options["concurrency"] # batch_defaults["concurrency"]
    /\ "batch_size" \in DOMAIN options /\ options["batch_size"] < 1
    /\ "retry_count" \notin DOMAIN options
    /\ opts.retry_count = DEFAULT_RETRY_COUNT
    /\ opts.batch_size = 1

\* ------------------------------------------------------------------
\* C19: _run_sync never runs two event loops on one thread.  Called where no
\* loop runs, it runs the coroutine on the calling thread; called where a loop
\* runs, it runs the coroutine on a worker thread with a loop of its own, and
\* it has started exactly one worker thread per such call.
C19_NoNestedLoop ==
    /\ \A t \in Threads : loops[t] <= 1
    /\ coro_thread # "none" =>
          /\ coro_thread = (IF loop_running THEN "worker" ELSE "caller")
          /\ (call_pc = "asyncio_run" \/ worker = "run_until_complete") =>
                loops[coro_thread] = 1
    /\ call_pc = "done" => /\ coro_thread # "none"
                           /\ threads_started = nested_calls
                           /\ loops["worker"] = 0

\* two nested calls have been served, each by a worker thread of its own
C19_Witness ==
    /\ call_pc = "done"
    /\ loop_running
    /\ coro_thread = "worker"
    /\ nested_calls = 2
    /\ threads_started = 2

\* ------------------------------------------------------------------
\* C20: whichever path _run_sync takes, the caller gets what the coroutine
\* produced: its return value, or the exception it raised, unchanged.
C20_SameOutcome ==
    call_pc = "done" => delivered = coro

\* a BATCH_ABORTED error with both partial lists came back from a worker thread
C20_Witness ==
    /\ call_pc = "done"
    /\ loop_running
    /\ coro.kind = "raise"
    /\ coro.value.code = "BATCH_ABORTED"
    /\ coro.value.context.failed # <<>>
    /\ coro.value.context.successful # <<>>
    /\ delivered = coro

\* ------------------------------------------------------------------
\* C21: in the nested case _run_sync gives nothing back to its caller before
\* the coroutine has run to its end on the worker thread; when it returns or
\* raises, the worker thread has terminated and the worker's loop is closed.
C21_BlockedUntilWorkerDone ==
    (loop_running /\ call_pc # "idle") =>
        /\ delivered # NotDelivered =>
              /\ worker = "terminated"
              /\ coro_thread = "worker"
              /\ loops["worker"] = 0
              /\ slot # EmptySlot
        /\ worker \in {"started", "run_until_complete"} =>
              /\ call_pc = "join"
              /\ delivered = NotDelivered

\* a nested call has raised what its worker caught, after the worker ended
C21_Witness ==
    /\ loop_running
    /\ call_pc = "done"
    /\ delivered.kind = "raise"
    /\ worker = "terminated"
    /\ loops["worker"] = 0

\* ------------------------------------------------------------------
\* C22: the chunks _chunked yields are contiguous pieces of the input in input
\* order; none is empty, every chunk but the last has batch_size items, the
\* concatenation of all of them is the input, and an empty input gives none.
RECURSIVE Concatenation(_)
Concatenation(seqs) ==
    IF seqs = <<>> THEN <<>> ELSE Head(seqs) \o Concatenation(Tail(seqs))

C22_ChunksCoverInput ==
    pc \in {"chunking", "exhausted"} =>
        /\ \A k \in 1..Len(chunks) :
              /\ chunks[k] # <<>>
              /\ k < Len(chunks) => Len(chunks[k]) = opts.batch_size
              /\ Len(chunks[k]) <= opts.batch_size
        /\ Concatenation(chunks) = SubSeq(items, 1, Len(Concatenation(chunks)))
        /\ pc = "exhausted" =>
              /\ Concatenation(chunks) = items
              /\ items = <<>> => chunks = <<>>

\* an exhausted generator whose last chunk is shorter than the ones before
C22_Witness ==
    /\ pc = "exhausted"
    /\ Len(chunks) >= 2
    /\ Len(chunks[Len(chunks)]) < opts.batch_size

\* ------------------------------------------------------------------
\* C27: an item sleeping in a retry backoff holds no permit: the permits taken
\* are exactly those of the invocations in flight, so other items can use the
\* whole capacity while some items sleep.
C27_BackoffHoldsNoPermit ==
    (pc \notin {"start", "returned", "raised"} \/ (Ended /\ Len(items) > 0)) =>
        opts.concurrency - semaphore = InFlight

\* one item sleeps in backoff while `concurrency` other invocations are in flight
C27_Witness ==
    /\ opts.concurrency >= 2
    /\ InFlight = opts.concurrency
    /\ semaphore = 0
    /\ \E i \in Indexes : status[i] = "sleeping"

\* ------------------------------------------------------------------
\* C28: the chunk boundary does not limit concurrency: while an invocation is
\* in flight, an input item is kept from being dispatched only when no permit
\* is free, so that with concurrency = k and at least k items, k invocations
\* get in flight together whatever batch_size is.
C28_ChunkDoesNotLimitConcurrency ==
    (InFlight >= 1 /\ \E i \in Indexes : ~Dispatched(i)) => semaphore = 0

\* ------------------------------------------------------------------
\* C30: chunks are dispatched in input order, and when an item of a chunk has
\* been dispatched, every item of every earlier chunk has started: it has been
\* dispatched and the processor has been invoked for it.
C30_EarlierChunksStarted ==
    /\ \A i, j \in Indexes :
          (Dispatched(j) /\ ChunkOf(i, opts.batch_size) < ChunkOf(j, opts.batch_size))
              => (Dispatched(i) /\ invocations[i] >= 1)
    /\ \A i \in Indexes : Dispatched(i) => ChunkOf(i, opts.batch_size) <= batch_index

C30_ChunksInOrder ==
    /\ []C30_EarlierChunksStarted
    /\ [][batch_index' \in {batch_index, batch_index + 1}]_vars

\* a third chunk has been dispatched
C30_Witness ==
    /\ batch_index >= 3
    /\ \E j \in Indexes : ChunkOf(j, opts.batch_size) = 3 /\ status[j] = "running"

\* ------------------------------------------------------------------
\* C29: the base wait before the n-th retry is retry_delay * 2^(n-1) with
\* exponential backoff and retry_delay without; the jitter lies between 0 and
\* a quarter of the wait; a zero retry_delay gives zero wait and zero jitter;
\* and there are at most retry_count waits, exactly retry_count for an item
\* whose retries are exhausted: no wait follows the final failed attempt.
C29_BackoffWaits ==
    /\ Len(waits) <= opts.retry_count
    /\ \A n \in 1..Len(waits) :
          /\ waits[n].attempt = n
          /\ waits[n].wait_delay = IF opts.exponential_backoff
                                      THEN opts.retry_delay * 2 ^ (n - 1)
                                      ELSE opts.retry_delay
          /\ 0 <= waits[n].jitter
          /\ 4 * waits[n].jitter <= waits[n].wait_delay
          /\ waits[n].slept = waits[n].wait_delay + waits[n].jitter
          /\ opts.retry_delay = 0 => waits[n].slept = 0
    /\ \A i \in Indexes : FailedTerminally(i) => Len(waits) = opts.retry_count
    /\ \A i \in Indexes : status[i] = "sleeping" => Len(waits) = attempt[i]

\* the third retry of an item follows a wait of four times the delay plus a
\* jitter of a quarter of that wait, and the item then fails for good
C29_Witness ==
    /\ opts.exponential_backoff
    /\ opts.retry_delay = 4
    /\ Len(waits) = 3
    /\ waits[3].wait_delay = 16
    /\ waits[3].jitter = 4
    /\ \E i \in Indexes : FailedTerminally(i)

\* ------------------------------------------------------------------
\* C23: when the team cannot be determined, the list name of the call cannot
\* be resolved, or move_bulk_tasks gets no target list at all, the bulk call
\* raises (INVALID_PARAMETER, NOT_FOUND, INVALID_PARAMETER) before any item
\* reaches the coordinator: no processor invocation, no request, no retry.
TeamUnknown == call.team_id = NoTeam /\ client.default_team_id = NoTeam

ListUnresolvable ==
    /\ call.operation \in {"create", "move"}
    /\ call.list_id = "" /\ call.list_name # ""
    /\ ~client.known_list

NoTargetList == call.operation = "move" /\ call.list_id = "" /\ call.list_name = ""

C23_CallLevelErrorsRaiseFirst ==
    (TeamUnknown \/ ListUnresolvable \/ NoTargetList) =>
        /\ pc \in {"called", "team", "raised"}
        /\ batch_index = 0
        /\ requests = <<>>
        /\ \A i \in Indexes : invocations[i] = 0 /\ attempt[i] = 0 /\ ~Dispatched(i)
        /\ pc = "raised" =>
              error.code = IF TeamUnknown THEN "INVALID_PARAMETER"
                           ELSE IF ListUnresolvable THEN "NOT_FOUND"
                           ELSE "INVALID_PARAMETER"

\* a call with entries has raised NOT_FOUND for its list name
C23_Witness ==
    /\ pc = "raised"
    /\ error.code = "NOT_FOUND"
    /\ Len(items) >= 1
    /\ list_resolutions = 1

\* ------------------------------------------------------------------
\* C24: a bulk call resolves the list of the call at most once, and only
\* before its items are processed, however many items and retries there are.
C24_DefaultListResolvedOnce ==
    /\ [](list_resolutions <= 1)
    /\ [][list_resolutions' # list_resolutions =>
              (pc = "team" /\ \A i \in Indexes : ~Dispatched(i))]_vars
    /\ [][(pc \notin {"called", "team"}) => resolved_list' = resolved_list]_vars

\* a call with two items, one of them retried, made one resolution
C24_Witness ==
    /\ pc = "completed"
    /\ list_resolutions = 1
    /\ Len(items) = 2
    /\ \E i \in Indexes : invocations[i] >= 2

\* ------------------------------------------------------------------
\* C25: every attempt of the processor for an item makes exactly one
\* request_checked call, so that an item that succeeds at once causes one
\* request and no item causes more than retry_count + 1.
RequestsOfAttempt(i, a) ==
    Cardinality({k \in 1..Len(requests) :
                    requests[k].index = i /\ requests[k].invocation = a})

RequestsOfItem(i) == Cardinality({k \in 1..Len(requests) : requests[k].index = i})

EndedAttempts(i) == IF status[i] = "running" THEN invocations[i] - 1 ELSE invocations[i]

C25_OneRequestPerAttempt ==
    \A i \in Indexes : \A a \in 1..EndedAttempts(i) : RequestsOfAttempt(i, a) = 1

\* ------------------------------------------------------------------
\* C26: delete_bulk_tasks for an entry that has a taskId and nothing else, no
\* team_id given and no OAuth, succeeds with exactly one DELETE request to
\* /task/{taskId} whose query_params is the empty mapping.
C26_DeleteSendsEmptyQuery ==
    (call.operation = "delete" /\ call.team_id = NoTeam /\ ~client.oauth) =>
        \A i \in Indexes :
            (items[i + 1].taskId # NoTaskId /\ Terminal(i) /\ outcome[i][1]
             /\ invocations[i] = 1) =>
                /\ RequestsOfItem(i) = 1
                /\ \A k \in 1..Len(requests) :
                      requests[k].index = i =>
                          /\ requests[k].method = "DELETE"
                          /\ requests[k].path = <<"/task/", items[i + 1].taskId>>
                          /\ requests[k].query_params # NoneValue
                          /\ DOMAIN requests[k].query_params = {}

\* ------------------------------------------------------------------
\* the caller's objects keep their value in every step, and so do the effective
\* options once process_batch has merged them
C31_NothingWritten ==
    /\ options' = options
    /\ batch_defaults' = batch_defaults
    /\ tasks' = tasks
    /\ pc \notin {"caller", "entered"} => opts' = opts

\* the progress wrapper of the service is in the mapping it prepared, and the
\* entries processed are the caller's, value for value
C31_WorksOnCopies ==
    /\ pc # "caller" =>
          /\ "progress_callback" \in DOMAIN prepared_options
          /\ prepared_options.progress_callback \notin {NoCallback, UserCallback}
    /\ pc \notin {"caller", "entered"} => items = tasks

\* C31: a bulk call never changes what the caller passed in: the caller's
\* options mapping, the service's batch defaults and the caller's task entries
\* keep their value through the whole call (the progress wrapper goes into the
\* service's own copy), and the effective BatchOptions do not change during
\* the run.
C31_CallerDataUntouched == []C31_WorksOnCopies /\ [][C31_NothingWritten]_vars

\* a call with a callback of the caller and batch defaults of the service has
\* ended, after a retry
C31_Witness ==
    /\ Ended
    /\ Len(tasks) >= 2
    /\ "progress_callback" \in DOMAIN options
    /\ batch_defaults # EmptyMapping
    /\ prepared_options # batch_defaults
    /\ \E i \in Indexes : attempt[i] >= 1

\* ------------------------------------------------------------------
\* the items whose task returned a FailureRecord
C32_Failing == {i \in Indexes : FailedTerminally(i)}

\* the lowest index among them
C32_FirstFailing == CHOOSE f \in C32_Failing : \A g \in C32_Failing : f <= g

\* C32: when the run raises BATCH_ABORTED, failed holds exactly one record, the
\* one of the lowest-index failing item f of the first chunk with a failure;
\* successful holds exactly the outputs of the items 0..f-1 in input order; the
\* items after f are in neither list, even when their processor ran.
C32_AbortContents ==
    Aborted =>
        /\ C32_Failing # {}
        /\ LET f == C32_FirstFailing
           IN  /\ \A g \in C32_Failing :
                      ChunkOf(f, opts.batch_size) = ChunkOf(g, opts.batch_size)
               /\ error.context.failed = <<outcome[f][2]>>
               /\ error.context.failed[1].index = f
               /\ error.context.successful =
                      [k \in 1..f |-> ProcessorOutput(items[k])]
               /\ \A j \in Indexes :
                      j > f => /\ OutputsOf(error.context.successful, j) = {}
                               /\ RecordsOf(error.context.failed, j) = {}

\* an abort that leaves out a later item whose processor returned and a later
\* item that failed as well
C32_Witness ==
    /\ Aborted
    /\ C32_Failing # {}
    /\ \E j \in Indexes : j > C32_FirstFailing /\ Terminal(j) /\ outcome[j][1]
    /\ Cardinality(C32_Failing) >= 2

\* ------------------------------------------------------------------
C33_Min(a, b) == IF a <= b THEN a ELSE b

\* C33: chunks are barriers: no item of a chunk is dispatched before every item
\* of every earlier chunk has reached its terminal outcome, retries and backoff
\* waits included, so that at most min(concurrency, batch_size) invocations of
\* the processor are in flight at once.
C33_ChunksAreBarriers ==
    /\ \A i, j \in Indexes :
          (Dispatched(j) /\ ChunkOf(i, opts.batch_size) < ChunkOf(j, opts.batch_size))
              => (Terminal(i) /\ status[i] = "done")
    /\ InFlight <= C33_Min(opts.concurrency, opts.batch_size)

\* a chunk smaller than the capacity is wholly in flight, after a chunk one of
\* whose items was retried
C33_Witness ==
    /\ opts.batch_size < opts.concurrency
    /\ batch_index >= 2
    /\ InFlight = opts.batch_size
    /\ \E i \in Indexes : ChunkOf(i, opts.batch_size) < batch_index /\ attempt[i] >= 1

\* ------------------------------------------------------------------
\* the input index of the item an output belongs to
C34_IndexOfOutput(output) == output[2][2]

C34_Ascending(successList, failedList) ==
    /\ \A k \in 1..(Len(successList) - 1) :
          C34_IndexOfOutput(successList[k]) < C34_IndexOfOutput(successList[k + 1])
    /\ \A k \in 1..(Len(failedList) - 1) :
          failedList[k].index < failedList[k + 1].index

\* C34: in every result, the returned one and the partial one of an abort, the
\* entries of successful and those of failed are in ascending order of input
\* index, in whatever order the items finished.
C34_ListsAscending ==
    /\ C34_Ascending(result.successful, result.failed)
    /\ C34_Ascending(error.context.successful, error.context.failed)

\* a returned result with two failures and a success, the first item having
\* finished last
C34_Witness ==
    /\ pc = "returned"
    /\ Len(result.failed) >= 2
    /\ Len(result.successful) >= 1
    /\ Len(finished) >= 3
    /\ finished[Len(finished)] = 0

\* ------------------------------------------------------------------
\* every task of the current chunk has returned
C35_ChunkSettled ==
    \A i \in ChunkIndexes(Len(items), opts.batch_size, batch_index) :
        status[i] = "done" /\ Terminal(i)

\* a step in which the progress callback is invoked: the chunk is settled, and
\* the snapshot is the one of the next item of the chunk in input order
C35_CallbackStep ==
    snapshots' # snapshots =>
        /\ C35_ChunkSettled
        /\ \A i \in Indexes : status[i] \notin {"waiting", "running", "sleeping"}
        /\ Len(snapshots') = Len(snapshots) + 1
        /\ snapshots'[Len(snapshots')].completed = next_outcome + 1
        /\ next_outcome \in ChunkIndexes(Len(items), opts.batch_size, batch_index)

\* when a chunk has been folded in a run that goes on, each of its items has
\* had its snapshot
C35_OnePerItem ==
    (progress_callback /\ pc = "loop" /\ ~halt) =>
        Len(snapshots) =
            Cardinality({i \in Indexes : ChunkOf(i, opts.batch_size) <= batch_index})

C36_AtEmission ==
    snapshots' # snapshots =>
        LET snapshot == snapshots'[Len(snapshots')]
        IN  /\ snapshot.completed = Len(result'.successful) + Len(result'.failed)
            /\ snapshot.success = Len(result'.successful)
            /\ snapshot.failure = Len(result'.failed)

C36_EverySnapshot ==
    \A k \in 1..Len(snapshots) :
        /\ snapshots[k].completed = snapshots[k].success + snapshots[k].failure
        /\ snapshots[k].completed <= snapshots[k].total
        /\ snapshots[k].total = Len(items)
        /\ snapshots[k].completed = k

\* C36: in every ProgressSnapshot completed = success + failure = len(successful)
\* + len(failed) at the moment of emission, completed <= total, total =
\* len(items), and the i-th snapshot of a run has completed = i.
C36_SnapshotCounts == []C36_EverySnapshot /\ [][C36_AtEmission]_vars

\* a third snapshot that counts a failure and a success
C36_Witness ==
    /\ Len(snapshots) >= 3
    /\ snapshots[3].failure >= 1
    /\ snapshots[3].success >= 1
    /\ snapshots[3].completed = snapshots[3].total

\* ------------------------------------------------------------------
\* the lists the caller gets when the run has ended: those of the returned
\* result, or those carried by the error
C37_Delivered == IF pc = "returned" THEN AbortContext(result) ELSE error.context

\* C37: an item whose processor first succeeds on attempt j is invoked exactly j
\* times (j <= retry_count + 1) and never again, appears exactly once in
\* successful and never in failed; no item appears in both lists or twice in
\* one list.
C37_SucceededItemListedOnce ==
    /\ \A i \in Indexes :
          (Terminal(i) /\ outcome[i][1]) =>
              /\ invocations[i] = attempt[i] + 1
              /\ invocations[i] <= opts.retry_count + 1
              /\ status[i] = "done"
              /\ Ended =>
                    /\ Cardinality(OutputsOf(C37_Delivered.successful, i)) = 1
                    /\ RecordsOf(C37_Delivered.failed, i) = {}
    /\ \A i \in Indexes :
          Cardinality(OutputsOf(result.successful, i))
              + Cardinality(RecordsOf(result.failed, i)) <= 1

\* ------------------------------------------------------------------
\* during the run every permit is either free or held by an invocation in
\* flight, and an item waits only while one is in flight or a permit is free
C38_PermitsComeBack ==
    pc \in {"loop", "gather", "fold"} =>
        /\ semaphore + InFlight = opts.concurrency
        /\ (\E i \in Indexes : status[i] = "waiting") => (semaphore >= 1 \/ InFlight >= 1)

\* C38: when every invocation of the processor and of the progress callback
\* ends, every run of process_batch ends, by returning or by raising: every
\* permit acquired is released when the attempt ends, no item waits for ever
\* for a permit and the run cannot deadlock.
C38_RunTerminates == []C38_PermitsComeBack /\ <>Ended

\* a run has ended in which two items shared one permit and one was retried
C38_Witness ==
    /\ Ended
    /\ opts.concurrency = 1
    /\ opts.batch_size >= 2
    /\ Len(items) >= 2
    /\ \E i \in Indexes : attempt[i] >= 1 /\ invocations[i] >= 2

====
